---- MODULE Spec2Model ----
(***************************************************************************)
(* useRestoreState (src/src/hooks/useRestoreState/index.tsx): a React hook *)
(* that stores a projection of the caller's data in session/local storage  *)
(* after a debounce, and offers to restore the stored draft.               *)
(*                                                                         *)
(* JavaScript values are records tagged by the name typeOf() gives them.   *)
(* An object is the sequence of its own enumerable properties in insertion *)
(* order (the order JSON.stringify and Object.keys walk them in).          *)
(***************************************************************************)
EXTENDS Integers, Sequences, FiniteSets, TLC

VARIABLES
    mounted,        \* [Insts -> BOOLEAN]: the hooks of the instance are attached
    props,          \* [Insts -> record]: the props of the latest enabled render
    hookKey,        \* [Insts -> key]: storageHookKey.current (useRef(key))
    storedData,     \* [Insts -> value]: the state of the storage hook
    requiredData,   \* [Insts -> value]: the memoised projection
    storeTimer,     \* [Insts -> Off or time left]: the timer of storeStateDeb
    restoreTimer,   \* [Insts -> Off or time left]: the timer of restoreStateDeb
    storage,        \* [mode -> [key -> value or NoItem]]: the two storage backends
    keySet,         \* the module-level Set of keys in use
    sinceStore,     \* [Insts -> time since storeStateDeb was last called, or Off]
    sinceRestore,   \* [Insts -> time since restoreStateDeb was last called, or Off]
    ev,             \* what the last step did (writes, prompts, callbacks, logs)
    hist,           \* [Insts -> record]: what has happened since the instance mounted
    host            \* the application the hook runs in: fixes the input domains

vars == <<mounted, props, hookKey, storedData, requiredData, storeTimer,
          restoreTimer, storage, keySet, sinceStore, sinceRestore, ev, hist, host>>

----------------------------------------------------------------------------
(* JavaScript values *)

Undef == [t |-> "undefined"]
Null == [t |-> "null"]
Num(n) == [t |-> "number", n |-> n]
Str(s) == [t |-> "string", s |-> s]
Bool(b) == [t |-> "boolean", b |-> b]
Obj(kv) == [t |-> "object", kv |-> kv]
Arr(el) == [t |-> "array", el |-> el]
MapOf(n) == [t |-> "map", size |-> n]
SetOf(n) == [t |-> "set", size |-> n]
\* a Map / a Set holding the values el
MapWith(el) == [t |-> "map", size |-> Len(el), el |-> el]
SetWith(el) == [t |-> "set", size |-> Len(el), el |-> el]
\* a value JSON.stringify throws on (a cyclic structure, a BigInt)
Cyclic == [t |-> "cyclic"]

\* A property that the caller did not pass at all (no own key).
Absent == [t |-> "absent"]

typeOf(object) == object.t

\* !!v
Truthy(v) ==
    CASE v.t = "undefined" -> FALSE
      [] v.t = "null" -> FALSE
      [] v.t = "absent" -> FALSE
      [] v.t = "number" -> v.n # 0
      [] v.t = "string" -> v.s # ""
      [] v.t = "boolean" -> v.b
      [] OTHER -> TRUE

RECURSIVE isValid(_)
\* an array checked like an object: every element recursively valid
isValidDeepArrays(newData) ==
    CASE typeOf(newData) = "object" ->
            \A i \in 1..Len(newData.kv) : isValid(newData.kv[i][2])
      [] typeOf(newData) = "array" ->
            /\ Len(newData.el) # 0
            /\ \A i \in 1..Len(newData.el) : isValid(newData.el[i])
      [] typeOf(newData) = "map" -> newData.size # 0
      [] typeOf(newData) = "set" -> newData.size # 0
      [] OTHER -> Truthy(newData)

isValid(newData) ==
    CASE typeOf(newData) = "object" ->
            \A i \in 1..Len(newData.kv) : isValid(newData.kv[i][2])
      [] typeOf(newData) = "array" ->
            /\ Len(newData.el) # 0
            /\ \A i \in 1..Len(newData.el) : Truthy(newData.el[i])
      [] typeOf(newData) = "map" -> newData.size # 0
      [] typeOf(newData) = "set" -> newData.size # 0
      [] OTHER -> Truthy(newData)

\* JSON.stringify.  undefined has no JSON text: the result is the JavaScript
\* value undefined, written here as the unquoted word, which no JSON text is.
NoText == "undefined"

RECURSIVE Stringify(_)
RECURSIVE StringifyProps(_, _)
RECURSIVE StringifyElems(_)

StringifyProps(kv, first) ==
    IF kv = <<>> THEN ""
    ELSE IF Head(kv)[2].t = "undefined" THEN StringifyProps(Tail(kv), first)
    ELSE (IF first THEN "" ELSE ",") \o "\"" \o Head(kv)[1] \o "\":"
            \o Stringify(Head(kv)[2]) \o StringifyProps(Tail(kv), FALSE)

StringifyElems(el) ==
    IF el = <<>> THEN ""
    ELSE (IF Head(el).t = "undefined" THEN "null" ELSE Stringify(Head(el)))
            \o (IF Tail(el) = <<>> THEN "" ELSE ",")
            \o StringifyElems(Tail(el))

Stringify(v) ==
    CASE v.t = "undefined" -> NoText
      [] v.t = "absent" -> NoText
      [] v.t = "null" -> "null"
      [] v.t = "number" -> ToString(v.n)
      [] v.t = "string" -> "\"" \o v.s \o "\""
      [] v.t = "boolean" -> IF v.b THEN "true" ELSE "false"
      [] v.t = "object" -> "{" \o StringifyProps(v.kv, TRUE) \o "}"
      [] v.t = "array" -> "[" \o StringifyElems(v.el) \o "]"
      [] OTHER -> "{}"

\* JSON.parse(JSON.stringify(v)): what a later read of the backend returns
\* for a value written to it.
RECURSIVE JsonRoundTrip(_)
RECURSIVE RoundTripProps(_)

RoundTripProps(kv) ==
    IF kv = <<>> THEN <<>>
    ELSE IF Head(kv)[2].t = "undefined" THEN RoundTripProps(Tail(kv))
    ELSE <<<<Head(kv)[1], JsonRoundTrip(Head(kv)[2])>>>> \o RoundTripProps(Tail(kv))

JsonRoundTrip(v) ==
    CASE v.t = "object" -> Obj(RoundTripProps(v.kv))
      [] v.t = "array" ->
            Arr([i \in 1..Len(v.el) |->
                    IF v.el[i].t = "undefined" THEN Null ELSE JsonRoundTrip(v.el[i])])
      [] v.t = "map" -> Obj(<<>>)
      [] v.t = "set" -> Obj(<<>>)
      [] OTHER -> v

\* obj[k]
Get(obj, k) ==
    IF obj.t = "object" /\ \E i \in 1..Len(obj.kv) : obj.kv[i][1] = k
    THEN obj.kv[CHOOSE i \in 1..Len(obj.kv) : obj.kv[i][1] = k][2]
    ELSE Undef

\* obj[k] = v on a property list: an existing key keeps its place.
SetProp(kv, k, v) ==
    IF \E i \in 1..Len(kv) : kv[i][1] = k
    THEN [i \in 1..Len(kv) |-> IF kv[i][1] = k THEN <<k, v>> ELSE kv[i]]
    ELSE Append(kv, <<k, v>>)

RECURSIVE AssignAll(_, _)
AssignAll(kv, entries) ==
    IF entries = <<>> THEN kv
    ELSE AssignAll(SetProp(kv, Head(entries)[1], Head(entries)[2]), Tail(entries))

\* The own enumerable properties an object spread ({...v}) copies.
OwnEntries(v) ==
    CASE v.t = "object" -> v.kv
      [] v.t = "array" -> [i \in 1..Len(v.el) |-> <<ToString(i - 1), v.el[i]>>]
      [] v.t = "string" -> IF v.s = "" THEN <<>> ELSE <<<<"0", v>>>>
      [] OTHER -> <<>>

----------------------------------------------------------------------------
(* Bounds and input domains *)

Insts == {"A", "B"}
Keys == {"k1", "k2"}
Modes == {"session", "local"}
\* the keys of the storageHooks map (lines 57-60)
storageHooks == {"session", "local"}

\* The resolution of the clock: time passes in steps of Quantum, and a timer
\* expires at the first step at or after its deadline.
Quantum == 250

\* wait of storeStateDeb, and the default of restore.delay
StoreWait == 500
DefaultDelay == 500
\* (line 55 holds the Chinese text of this sentence)
defaultPromot == "You have cached data, fill it in?"

Off == -1
NoItem == [t |-> "noitem"]

EmptyObj == Obj(<<>>)
EmptyList == Arr(<<>>)
A0 == Obj(<<<<"a", Num(0)>>>>)
A1 == Obj(<<<<"a", Num(1)>>>>)
AB0 == Obj(<<<<"a", Num(1)>>, <<"b", Num(0)>>>>)
ABMap1 == Obj(<<<<"a", Num(1)>>, <<"b", MapWith(<<Num(7)>>)>>>>)
ABMap0 == Obj(<<<<"a", Num(1)>>, <<"b", MapOf(0)>>>>)
NameX == Obj(<<<<"name", Str("x")>>>>)
NameY == Obj(<<<<"name", Str("y")>>>>)
NameEmpty == Obj(<<<<"name", Str("")>>>>)
AB == Obj(<<<<"a", Num(1)>>, <<"b", Num(2)>>>>)
BA == Obj(<<<<"b", Num(2)>>, <<"a", Num(1)>>>>)
B9C3 == Obj(<<<<"b", Num(9)>>, <<"c", Num(3)>>>>)
List12 == Arr(<<Num(1), Num(2)>>)
List21 == Arr(<<Num(2), Num(1)>>)
Nested1 == Obj(<<<<"a", Obj(<<<<"u", Num(1)>>>>)>>>>)
Nested2 == Obj(<<<<"a", Obj(<<<<"v", Num(2)>>>>)>>>>)

\* The applications checked.  Each fixes the values its renders pass as
\* store.data, store.required and the three `when` fields, the configuration
\* an instance mounts with, and what the backend may hold before the mount.
\* "twins" mounts two instances and changes their key props, "shapes" passes
\* data of every kind isValid tells apart, "fields" passes required lists over
\* data that lacks fields, "faulty" has a callback that may throw and data
\* that cannot be serialized.
Hosts == {"form", "pair", "list", "nested", "gate", "twins", "shapes", "fields",
          "faulty"}

\* the instances a host renders, and the keys it passes them
InstsOf(h) == IF h = "twins" THEN Insts ELSE {"A"}
KeysOf(h) == IF h = "twins" THEN Keys ELSE {"k1"}

\* store.data
DataDomain(h) ==
    CASE h = "form" -> {NameX, NameEmpty}
      [] h = "pair" -> {AB, BA}
      [] h = "list" -> {List12, List21}
      [] h = "nested" -> {Nested1, NameX}
      [] h = "shapes" -> {EmptyObj, A0, EmptyList, Arr(<<Num(0)>>), Arr(<<EmptyList>>),
                          Arr(<<A0>>), MapOf(0), MapWith(<<Num(0)>>), SetOf(0),
                          SetWith(<<Null>>), Num(0), Str("")}
      [] h = "fields" -> {AB, A1, AB0, ABMap1, ABMap0}
      [] OTHER -> {NameX}

\* store.data that cannot be serialized
Unserializable(h) == IF h = "faulty" THEN {Cyclic} ELSE {}
\* whether a call of restore.callback throws
CallbackThrows(h) == IF h = "faulty" THEN BOOLEAN ELSE {FALSE}

\* store.required
RequiredDomain(h) ==
    CASE h = "pair" -> {Absent, Arr(<<Str("b"), Str("a")>>)}
      [] h = "fields" -> {Absent, EmptyList, Arr(<<Str("a"), Str("b")>>)}
      [] OTHER -> {Absent}

\* <<store.when, when, restore.when>>
NestedWhen == {Absent, Bool(FALSE), Bool(TRUE)}
TopWhen == {Absent, Undef, Bool(TRUE)}
WhenDomain(h) ==
    CASE h = "gate" -> NestedWhen \X TopWhen \X NestedWhen
      [] h = "form" -> {<<Absent, Absent, Absent>>, <<Absent, Absent, Bool(FALSE)>>}
      [] OTHER -> {<<Absent, Absent, Absent>>}

\* <<mode, test, restore.prompt, restore.delay>>, fixed while mounted
ConfigDomain(h) ==
    CASE h = "form" -> {<<"session", FALSE, Absent, Absent>>,
                        <<"session", TRUE, Absent, Num(1000)>>,
                        <<"local", FALSE, Str("Restore the draft?"), Num(1000)>>}
      [] h = "twins" -> {<<"session", TRUE, Absent, Num(250)>>}
      [] OTHER -> {<<"session", TRUE, Absent, Absent>>}

\* what a backend may hold under the key before the instance first mounts
StoredDomain(h) ==
    CASE h = "form" -> {NoItem, NameY}
      [] h = "pair" -> {NoItem, B9C3, BA}
      [] h = "list" -> {NoItem, List12}
      [] h = "nested" -> {Nested2}
      [] h \in {"shapes", "fields"} -> {NoItem}
      [] h \in {"twins", "faulty"} -> {NameY}
      [] OTHER -> {NoItem, NameY}

NoProps ==
    [key |-> "k1", mode |-> "session", open |-> FALSE, data |-> Undef,
     required |-> Absent, storeWhen |-> Absent, when |-> Absent,
     restoreWhen |-> Absent, test |-> FALSE, prompt |-> Absent, delay |-> Absent]

NoEvent ==
    [kind |-> "init", inst |-> "A", wrote |-> <<>>, asked |-> <<>>,
     answer |-> "none", called |-> <<>>, warned |-> 0, sched |-> {},
     restarted |-> {}, threw |-> "none"]

Event(kind, i) == [NoEvent EXCEPT !.kind = kind, !.inst = i]

\* Since the instance mounted: the mount found a draft in storage and no
\* restore evaluation has run yet (draft), the props are still those of the
\* mount (quiet), the projected data has changed (edited), the stored data
\* is a value the instance wrote itself (own); and storeStateDeb was called
\* after the pending call of restoreStateDeb (storeLater).
NoHistory ==
    [draft |-> FALSE, quiet |-> FALSE, edited |-> FALSE, own |-> FALSE,
     storeLater |-> FALSE]

----------------------------------------------------------------------------
(* The values one render computes (lines 75-149) *)

\* Object.keys(obj).includes(key), for the key `when`
objectHasKey(whenField) == whenField # Absent

\* restore: { prompt = defaultPromot, delay = 500 }
PromptOfDefault(p) == defaultPromot
PromptOf(p) == IF p.prompt.t = "string" THEN p.prompt.s ELSE defaultPromot
DelayOf(p) == IF p.delay.t = "number" THEN p.delay.n ELSE DefaultDelay

\* storageHook(key)[0] on the first render: getItem, JSON.parse
ReadStored(mode, key) ==
    IF storage[mode][key] = NoItem THEN Undef ELSE storage[mode][key]

\* the body of the requiredData memo
ProjectRequired(newData, required) ==
    IF /\ Truthy(newData)
       /\ newData.t \in {"object", "array", "map", "set"}
       /\ required.t = "array"
    THEN Obj(AssignAll(<<>>, [n \in 1..Len(required.el) |->
                <<required.el[n].s, Get(newData, required.el[n].s)>>]))
    ELSE newData

\* useMemo(..., [JSON.stringify(newData), JSON.stringify(required)])
MemoRequired(old, oldProps, p) ==
    IF /\ Stringify(p.data) = Stringify(oldProps.data)
       /\ Stringify(p.required) = Stringify(oldProps.required)
    THEN old
    ELSE ProjectRequired(p.data, p.required)

isDifferent(stored, required) == Stringify(stored) # Stringify(required)

\* the top-level `when` consulted before store.when
extraStoreCondTopFirst(p) ==
    IF objectHasKey(p.when) THEN Truthy(p.when)
    ELSE IF objectHasKey(p.storeWhen) THEN Truthy(p.storeWhen)
    ELSE TRUE

extraStoreCond(p) ==
    IF objectHasKey(p.storeWhen) THEN Truthy(p.storeWhen)
    ELSE IF objectHasKey(p.when) THEN Truthy(p.when)
    ELSE TRUE

\* the gate without its extra condition
canStoreNoCond(p, stored, required) ==
    /\ isValid(required)
    /\ isDifferent(stored, required)

\* the gate without its difference check
canStoreNoDiff(p, stored, required) ==
    /\ isValid(required)
    /\ extraStoreCond(p)

canStore(p, stored, required) ==
    /\ isValid(required)
    /\ isDifferent(stored, required)
    /\ extraStoreCond(p)

triggerRestore(p) ==
    IF objectHasKey(p.restoreWhen) THEN Truthy(p.restoreWhen)
    ELSE IF objectHasKey(p.when) THEN Truthy(p.when)
    ELSE TRUE

canRestore(stored, required) ==
    /\ Truthy(stored)
    /\ isDifferent(stored, required)

\* { ...storedData, ...newData }
ReconcileFreshWins(newData, stored) ==
    Obj(AssignAll(AssignAll(<<>>, OwnEntries(stored)), OwnEntries(newData)))

\* { ...newData, ...storedData }
Reconcile(newData, stored) ==
    Obj(AssignAll(AssignAll(<<>>, OwnEntries(newData)), OwnEntries(stored)))

\* the effect runs after the first render too
useUpdateEffectRunsAtMount(first, changed) == first \/ changed

\* useUpdateEffect(effect, deps): the effect runs when a dep has changed, and
\* not after the first render
useUpdateEffect(first, changed) == ~first /\ changed

\* the effect skips the first render
useEffectSkipsFirstRun(first, changed) == ~first /\ changed

\* useEffect(effect, deps): the effect runs after the first render and when a
\* dep has changed
useEffect(first, changed) == first \/ changed

\* a call while the timer is pending does not restart it
DebouncedNoRestart(timer, wait, run) == IF run /\ timer = Off THEN wait ELSE timer

\* useDebounceFn(...).run: a call (re)starts the timer at the full wait
Debounced(timer, wait, run) == IF run THEN wait ELSE timer

----------------------------------------------------------------------------
(* Operations *)

Init ==
    /\ mounted = [i \in Insts |-> FALSE]
    /\ props = [i \in Insts |-> NoProps]
    /\ hookKey = [i \in Insts |-> "k1"]
    /\ storedData = [i \in Insts |-> Undef]
    /\ requiredData = [i \in Insts |-> Undef]
    /\ storeTimer = [i \in Insts |-> Off]
    /\ restoreTimer = [i \in Insts |-> Off]
    /\ host \in Hosts
    /\ \E v \in StoredDomain(host) : storage = [m \in Modes |-> [k \in Keys |-> v]]
    /\ keySet = {}
    /\ sinceStore = [i \in Insts |-> Off]
    /\ sinceRestore = [i \in Insts |-> Off]
    /\ ev = NoEvent
    /\ hist = [i \in Insts |-> NoHistory]

\* the registry memo of lines 93-100 run before the guard of line 85
RenderInertRegisters(i) ==
    /\ keySet' = keySet \cup {hookKey[i]}
    /\ ev' = Event("inert", i)
    /\ UNCHANGED <<mounted, props, hookKey, storedData, requiredData, storeTimer,
                   restoreTimer, storage, sinceStore, sinceRestore, hist, host>>

\* A render with open false or a mode that names no backend: line 85 returns.
RenderInert(i) ==
    /\ \E open \in BOOLEAN, mode \in Modes \cup {"memory"} :
            ~open \/ mode \notin storageHooks
    /\ ev' = Event("inert", i)
    /\ UNCHANGED <<mounted, props, hookKey, storedData, requiredData, storeTimer,
                   restoreTimer, storage, keySet, sinceStore, sinceRestore, hist,
                   host>>

\* An enabled render whose store.data cannot be serialized: JSON.stringify
\* throws at line 113 and line 191 catches and logs.  On a first render
\* lines 91-103 have run by then; no hook from line 106 on is reached, so
\* nothing is scheduled and the closures of an earlier render stay in place.
RenderThrows(i) ==
    /\ \E data \in Unserializable(host), key \in KeysOf(host),
          c \in ConfigDomain(host) :
        IF mounted[i]
        THEN /\ ev' = [Event("renderThrew", i) EXCEPT !.threw = "caught"]
             /\ UNCHANGED <<hookKey, keySet, storedData>>
        ELSE /\ storeTimer[i] = Off /\ restoreTimer[i] = Off
             /\ hookKey' = [hookKey EXCEPT ![i] = key]
             /\ keySet' = keySet \cup {key}
             /\ storedData' = [storedData EXCEPT ![i] = ReadStored(c[1], key)]
             /\ ev' = [Event("renderThrew", i) EXCEPT
                            !.threw = "caught",
                            !.warned = IF key \in keySet THEN 1 ELSE 0]
    /\ UNCHANGED <<mounted, props, requiredData, storeTimer, restoreTimer, storage,
                   sinceStore, sinceRestore, hist, host>>

\* The first enabled render of an instance, with the effects it commits:
\* useUpdateEffect skips this run, useEffect calls restoreStateDeb.  An
\* instance mounts again only once the timers of its previous mount are gone.
Mount(i, p) ==
    /\ ~mounted[i]
    /\ storeTimer[i] = Off /\ restoreTimer[i] = Off
    /\ LET stored == ReadStored(p.mode, p.key)
           required == ProjectRequired(p.data, p.required)
           runStore == useUpdateEffect(TRUE, TRUE)
           runRestore == useEffect(TRUE, TRUE)
       IN  /\ storedData' = [storedData EXCEPT ![i] = stored]
           /\ requiredData' = [requiredData EXCEPT ![i] = required]
           /\ storeTimer' = [storeTimer EXCEPT ![i] = Debounced(Off, StoreWait, runStore)]
           /\ restoreTimer' = [restoreTimer EXCEPT
                                ![i] = Debounced(Off, DelayOf(p), runRestore)]
           /\ sinceStore' = [sinceStore EXCEPT ![i] = IF runStore THEN 0 ELSE Off]
           /\ sinceRestore' = [sinceRestore EXCEPT ![i] = IF runRestore THEN 0 ELSE Off]
           /\ ev' = [Event("mount", i) EXCEPT
                        !.warned = IF p.key \in keySet THEN 1 ELSE 0,
                        !.sched = (IF runStore THEN {"store"} ELSE {})
                                    \cup (IF runRestore THEN {"restore"} ELSE {})]
           /\ hist' = [hist EXCEPT ![i] = [NoHistory EXCEPT
                                            !.draft = canRestore(stored, required),
                                            !.quiet = TRUE]]
    /\ mounted' = [mounted EXCEPT ![i] = TRUE]
    /\ props' = [props EXCEPT ![i] = p]
    /\ hookKey' = [hookKey EXCEPT ![i] = p.key]
    /\ keySet' = keySet \cup {p.key}
    /\ UNCHANGED <<storage, host>>

\* A later enabled render, with the effects it commits.  The wait of
\* restoreStateDeb stays the one the debounced function was created with.
\* The registry memo runs again when the key prop has changed, and looks up
\* storageHookKey.current, the key of the first render.
Update(i, p) ==
    /\ mounted[i]
    /\ LET required == MemoRequired(requiredData[i], props[i], p)
           runStore == useUpdateEffect(FALSE,
                            Stringify(required) # Stringify(requiredData[i]))
           runRestore == useEffect(FALSE, triggerRestore(p) # triggerRestore(props[i]))
       IN  /\ props' = [props EXCEPT ![i] = p]
           /\ requiredData' = [requiredData EXCEPT ![i] = required]
           /\ storeTimer' = [storeTimer EXCEPT
                                ![i] = Debounced(@, StoreWait, runStore)]
           /\ restoreTimer' = [restoreTimer EXCEPT
                                ![i] = Debounced(@, DelayOf(props[i]), runRestore)]
           /\ sinceStore' = [sinceStore EXCEPT ![i] = IF runStore THEN 0 ELSE @]
           /\ sinceRestore' = [sinceRestore EXCEPT ![i] = IF runRestore THEN 0 ELSE @]
           /\ ev' = [Event("render", i) EXCEPT
                        !.warned = IF p.key # props[i].key /\ hookKey[i] \in keySet
                                   THEN 1 ELSE 0,
                        !.sched = (IF runStore THEN {"store"} ELSE {})
                                    \cup (IF runRestore THEN {"restore"} ELSE {}),
                        !.restarted =
                            (IF runStore /\ storeTimer[i] \notin {Off, StoreWait}
                             THEN {"store"} ELSE {})
                            \cup (IF runRestore
                                     /\ restoreTimer[i] \notin {Off, DelayOf(props[i])}
                                  THEN {"restore"} ELSE {})]
           /\ keySet' = IF p.key # props[i].key THEN keySet \cup {hookKey[i]} ELSE keySet
           /\ hist' = [hist EXCEPT ![i] = [@ EXCEPT
                            !.quiet = @ /\ p = props[i],
                            !.edited = @ \/ runStore,
                            !.storeLater = IF runRestore THEN FALSE
                                           ELSE IF runStore THEN restoreTimer[i] # Off
                                           ELSE @]]
    /\ UNCHANGED <<mounted, hookKey, storedData, storage, host>>

Render(i) ==
    \E key \in KeysOf(host), data \in DataDomain(host),
       required \in RequiredDomain(host), w \in WhenDomain(host) :
        IF mounted[i]
        THEN Update(i, [props[i] EXCEPT !.key = key, !.data = data,
                            !.required = required,
                            !.storeWhen = w[1], !.when = w[2], !.restoreWhen = w[3]])
        ELSE \E c \in ConfigDomain(host) :
                Mount(i, [key |-> key, mode |-> c[1], open |-> TRUE, data |-> data,
                          required |-> required, storeWhen |-> w[1], when |-> w[2],
                          restoreWhen |-> w[3], test |-> c[2], prompt |-> c[3],
                          delay |-> c[4]])

\* Both timers of the instance expire in this step of the clock after the
\* same wait: they were started within one step of the clock, and the one
\* that was started first runs first.  (Timers of different waits that
\* expire in one step run in either order: the clock does not tell which
\* deadline is the earlier.)
StartedTogether(i) ==
    /\ storeTimer[i] = 0 /\ restoreTimer[i] = 0
    /\ sinceStore[i] = sinceRestore[i]
    /\ DelayOf(props[i]) = StoreWait

\* The timer of storeStateDeb expires: lines 154-164 run with the values of
\* the latest render; store() sets the hook's state and writes the backend.
StoreFire(i) ==
    /\ storeTimer[i] = 0
    /\ ~(StartedTogether(i) /\ hist[i].storeLater)
    /\ storeTimer' = [storeTimer EXCEPT ![i] = Off]
    /\ sinceStore' = [sinceStore EXCEPT ![i] = Off]
    /\ IF canStore(props[i], storedData[i], requiredData[i])
       THEN /\ storage' = [storage EXCEPT ![props[i].mode][hookKey[i]] =
                            IF requiredData[i] = Undef THEN NoItem
                            ELSE JsonRoundTrip(requiredData[i])]
            /\ storedData' = [storedData EXCEPT
                                ![i] = IF mounted[i] THEN requiredData[i] ELSE @]
            /\ ev' = [Event("storeEval", i) EXCEPT !.wrote = <<requiredData[i]>>]
            /\ hist' = [hist EXCEPT ![i] = [@ EXCEPT !.own = @ \/ mounted[i],
                                                      !.storeLater = FALSE]]
       ELSE /\ UNCHANGED <<storage, storedData>>
            /\ hist' = [hist EXCEPT ![i] = [@ EXCEPT !.storeLater = FALSE]]
            /\ ev' = Event("storeEval", i)
    /\ UNCHANGED <<mounted, props, hookKey, requiredData, restoreTimer, keySet,
                   sinceRestore, host>>

\* The timer of restoreStateDeb expires: lines 172-180.  The timer calls the
\* function outside the try block of lines 102-191, which the render has
\* left: what restore.callback throws is caught by nothing.
RestoreFire(i) ==
    /\ restoreTimer[i] = 0
    /\ ~(StartedTogether(i) /\ ~hist[i].storeLater)
    /\ restoreTimer' = [restoreTimer EXCEPT ![i] = Off]
    /\ sinceRestore' = [sinceRestore EXCEPT ![i] = Off]
    /\ hist' = [hist EXCEPT ![i] = [@ EXCEPT !.draft = FALSE, !.storeLater = FALSE]]
    /\ IF triggerRestore(props[i]) /\ canRestore(storedData[i], requiredData[i])
       THEN \E throws \in CallbackThrows(host) :
            IF props[i].test
            THEN ev' = [Event("restoreEval", i) EXCEPT
                            !.called = <<Reconcile(props[i].data, storedData[i])>>,
                            !.threw = IF throws THEN "uncaught" ELSE "none"]
            ELSE \E yes \in BOOLEAN :
                    ev' = [Event("restoreEval", i) EXCEPT
                            !.asked = <<PromptOf(props[i])>>,
                            !.answer = IF yes THEN "yes" ELSE "no",
                            !.called = IF yes
                                       THEN <<Reconcile(props[i].data, storedData[i])>>
                                       ELSE <<>>,
                            !.threw = IF yes /\ throws THEN "uncaught" ELSE "none"]
       ELSE ev' = Event("restoreEval", i)
    /\ UNCHANGED <<mounted, props, hookKey, storedData, requiredData, storeTimer,
                   storage, keySet, sinceStore, host>>

\* Time passes by one step of the clock; an expired timer runs first.
Pending ==
    ({storeTimer[i] : i \in Insts} \cup {restoreTimer[i] : i \in Insts}) \ {Off}
Advance ==
    /\ Pending # {}
    /\ 0 \notin Pending
    /\ LET Run(t) == IF t = Off THEN Off ELSE IF t > Quantum THEN t - Quantum ELSE 0
           Age(t) == IF t = Off THEN Off ELSE t + Quantum
       IN  /\ storeTimer' = [i \in Insts |-> Run(storeTimer[i])]
           /\ restoreTimer' = [i \in Insts |-> Run(restoreTimer[i])]
           /\ sinceStore' = [i \in Insts |-> Age(sinceStore[i])]
           /\ sinceRestore' = [i \in Insts |-> Age(sinceRestore[i])]
    /\ ev' = Event("advance", "A")
    /\ UNCHANGED <<mounted, props, hookKey, storedData, requiredData, storage, keySet,
                   hist, host>>

\* the unmount takes the key of the instance out of the registry
UnmountReleasesKey(i) ==
    /\ mounted[i]
    /\ mounted' = [mounted EXCEPT ![i] = FALSE]
    /\ storeTimer' = [storeTimer EXCEPT ![i] = Off]
    /\ restoreTimer' = [restoreTimer EXCEPT ![i] = Off]
    /\ sinceStore' = [sinceStore EXCEPT ![i] = Off]
    /\ sinceRestore' = [sinceRestore EXCEPT ![i] = Off]
    /\ props' = [props EXCEPT ![i] = NoProps]
    /\ storedData' = [storedData EXCEPT ![i] = Undef]
    /\ requiredData' = [requiredData EXCEPT ![i] = Undef]
    /\ hist' = [hist EXCEPT ![i] = NoHistory]
    /\ keySet' = keySet \ {hookKey[i]}
    /\ ev' = Event("unmount", i)
    /\ UNCHANGED <<hookKey, storage, host>>

\* The host component unmounts.  ahooks 3 cancels the pending debounced calls
\* on unmount, ahooks 2 leaves them to expire.  Nothing touches the registry.
Unmount(i) ==
    /\ mounted[i]
    /\ mounted' = [mounted EXCEPT ![i] = FALSE]
    /\ \/ /\ storeTimer' = [storeTimer EXCEPT ![i] = Off]
          /\ restoreTimer' = [restoreTimer EXCEPT ![i] = Off]
          /\ sinceStore' = [sinceStore EXCEPT ![i] = Off]
          /\ sinceRestore' = [sinceRestore EXCEPT ![i] = Off]
          /\ props' = [props EXCEPT ![i] = NoProps]
          /\ storedData' = [storedData EXCEPT ![i] = Undef]
          /\ requiredData' = [requiredData EXCEPT ![i] = Undef]
          /\ hist' = [hist EXCEPT ![i] = NoHistory]
       \/ /\ storeTimer[i] # Off \/ restoreTimer[i] # Off
          /\ UNCHANGED <<storeTimer, restoreTimer, sinceStore, sinceRestore, props,
                         storedData, requiredData, hist>>
    /\ ev' = Event("unmount", i)
    /\ UNCHANGED <<hookKey, storage, keySet, host>>

Next ==
    \/ \E i \in InstsOf(host) : RenderInert(i)
    \/ \E i \in InstsOf(host) : RenderThrows(i)
    \/ \E i \in InstsOf(host) : Render(i)
    \/ \E i \in InstsOf(host) : StoreFire(i)
    \/ \E i \in InstsOf(host) : RestoreFire(i)
    \/ Advance
    \/ \E i \in InstsOf(host) : Unmount(i)

Spec == Init /\ [][Next]_vars

----------------------------------------------------------------------------
(* What the specification says, stated independently of the code above *)

\* Deep structural equality: object keys in any order, array elements in order.
RECURSIVE DeepEqual(_, _)
DeepEqual(a, b) ==
    IF a.t # b.t THEN FALSE
    ELSE CASE a.t = "object" ->
                /\ Len(a.kv) = Len(b.kv)
                /\ \A m \in 1..Len(a.kv) : \E n \in 1..Len(b.kv) :
                        /\ a.kv[m][1] = b.kv[n][1]
                        /\ DeepEqual(a.kv[m][2], b.kv[n][2])
           [] a.t = "array" ->
                /\ Len(a.el) = Len(b.el)
                /\ \A m \in 1..Len(a.el) : DeepEqual(a.el[m], b.el[m])
           [] OTHER -> a = b

StructurallyDifferent(a, b) == ~DeepEqual(a, b)

\* The two-level resolution of a gating condition: the nested `when` if it is
\* supplied, else the top-level `when` if it is supplied, else true.
Resolved(nested, top) ==
    IF nested # Absent THEN Truthy(nested)
    ELSE IF top # Absent THEN Truthy(top)
    ELSE TRUE

\* The top-level <<key, value>> pairs of a value.
TopLevel(v) ==
    CASE v.t = "object" -> {v.kv[n] : n \in 1..Len(v.kv)}
      [] v.t = "array" -> {<<ToString(n - 1), v.el[n]>> : n \in 1..Len(v.el)}
      [] OTHER -> {}

Did(kind) == ev.kind = kind
Restored == ev.called # <<>> \/ ev.asked # <<>>

----------------------------------------------------------------------------
(* C1 *)

\* C1: every storage write happens at a store evaluation at which, for the
\* values of the latest render, the projected data is valid, the stored data
\* is structurally different from the projected data and the resolved extra
\* condition is true; no write happens while projected equals stored.
C1_WriteOnlyWhenStoreGateHolds ==
    [][ev'.wrote # <<>> =>
        LET i == ev'.inst
        IN  /\ ev'.kind = "storeEval"
            /\ storeTimer[i] = 0
            /\ isValid(requiredData[i])
            /\ StructurallyDifferent(storedData[i], requiredData[i])
            /\ Resolved(props[i].storeWhen, props[i].when)]_vars

----------------------------------------------------------------------------
(* C2 *)

\* C2: the restore callback is invoked, and the confirmation oracle consulted,
\* only at a restore evaluation at which triggerRestore is true, the stored
\* data is truthy and the stored data is structurally different from the
\* projected data; with stored undefined the callback is never invoked.
C2_RestoreOnlyWhenRestoreGateHolds ==
    Restored =>
        LET i == ev.inst
        IN  /\ Did("restoreEval")
            /\ Resolved(props[i].restoreWhen, props[i].when)
            /\ Truthy(storedData[i])
            /\ StructurallyDifferent(storedData[i], requiredData[i])

----------------------------------------------------------------------------
(* C3 *)

\* C3: for storing and for restoring alike, the gating condition is the
\* boolean coercion of the nested `when` if the nested object has that key
\* (whatever its value and whatever the top-level `when`), else that of the
\* top-level `when` if the configuration has that key, else true.
C3_WhenResolutionOrder ==
    \A i \in Insts : mounted[i] =>
        /\ extraStoreCond(props[i]) = Resolved(props[i].storeWhen, props[i].when)
        /\ triggerRestore(props[i]) = Resolved(props[i].restoreWhen, props[i].when)

\* a render with store.when supplied as false under a truthy top-level when,
\* and restore.when absent under it
C3_Witness ==
    \E i \in Insts :
        /\ mounted[i]
        /\ props[i].storeWhen = Bool(FALSE)
        /\ props[i].when = Bool(TRUE)
        /\ props[i].restoreWhen = Absent
        /\ ~extraStoreCond(props[i])
        /\ triggerRestore(props[i])

----------------------------------------------------------------------------
(* C4 *)

SuppliedFalsy(w) == w # Absent /\ ~Truthy(w)

\* C4 as stated: canStore is false whenever any explicitly supplied `when`,
\* store.when or the top-level one, is falsy.
C4_AnyFalsyWhenBlocksStore ==
    \A i \in Insts :
        mounted[i] /\ (SuppliedFalsy(props[i].storeWhen) \/ SuppliedFalsy(props[i].when))
            => ~canStore(props[i], storedData[i], requiredData[i])

\* C4 amended: canStore is false whenever the `when` that applies is falsy:
\* store.when if it is supplied, else the top-level when if it is supplied.
C4_ResolvedFalsyWhenBlocksStore ==
    \A i \in Insts :
        mounted[i] /\ ~Resolved(props[i].storeWhen, props[i].when)
            => ~canStore(props[i], storedData[i], requiredData[i])

\* valid data that differs from the stored data, held back by a falsy
\* top-level when alone
C4_Witness ==
    \E i \in Insts :
        /\ mounted[i]
        /\ props[i].storeWhen = Absent
        /\ SuppliedFalsy(props[i].when)
        /\ isValid(requiredData[i])
        /\ StructurallyDifferent(storedData[i], requiredData[i])
        /\ ~canStore(props[i], storedData[i], requiredData[i])

----------------------------------------------------------------------------
(* C5 *)

A1B9C3 == Obj(<<<<"a", Num(1)>>, <<"b", Num(9)>>, <<"c", Num(3)>>>>)

\* C5: the argument of the restore callback is the shallow overlay of the
\* stored data over the fresh subject data: every top-level key of stored
\* carries the stored value, every key only in fresh carries the fresh value,
\* nothing nested is merged; {a:1,b:2} under {b:9,c:3} gives {a:1,b:9,c:3}
\* and {name:'x'} under {name:'y'} gives {name:'y'}.
C5_CallbackGetsShallowOverlay ==
    ev.called # <<>> =>
        LET i == ev.inst
            arg == ev.called[1]
            fresh == TopLevel(props[i].data)
            stored == TopLevel(storedData[i])
        IN  /\ Len(ev.called) = 1
            /\ arg.t = "object"
            /\ Cardinality(TopLevel(arg)) = Len(arg.kv)
            /\ TopLevel(arg) =
                    stored \cup {f \in fresh : \A g \in stored : g[1] # f[1]}
            /\ (props[i].data = AB /\ storedData[i] = B9C3 => DeepEqual(arg, A1B9C3))
            /\ (props[i].data = NameX /\ storedData[i] = NameY => arg = NameY)

\* the callback has been handed {a:1,b:9,c:3}
C5_Witness ==
    /\ Did("restoreEval")
    /\ ev.called # <<>>
    /\ props[ev.inst].data = AB
    /\ storedData[ev.inst] = B9C3
    /\ DeepEqual(ev.called[1], A1B9C3)

----------------------------------------------------------------------------
(* C6 *)

ConfiguredPrompt(p) == IF p.prompt = Absent THEN defaultPromot ELSE p.prompt.s

\* C6: at a restore evaluation that passes both gates, with `test` set the
\* callback is invoked and the oracle is not consulted; without it the oracle
\* is consulted exactly once, with the configured or default prompt, and the
\* callback is invoked iff the answer is yes; a no leaves the application
\* data and the stored data unchanged.
C6_TestBypassesOracleElseAnswerDecides ==
    [][LET i == ev'.inst
       IN  /\ ev'.kind = "restoreEval"
           /\ triggerRestore(props[i])
           /\ canRestore(storedData[i], requiredData[i])
           => IF props[i].test
              THEN ev'.asked = <<>> /\ Len(ev'.called) = 1
              ELSE /\ ev'.asked = <<ConfiguredPrompt(props[i])>>
                   /\ ev'.answer \in {"yes", "no"}
                   /\ ev'.answer = "yes" => Len(ev'.called) = 1
                   /\ ev'.answer = "no" =>
                        /\ ev'.called = <<>>
                        /\ UNCHANGED <<props, storedData, requiredData, storage>>]_vars

\* the oracle was asked the configured prompt and answered no
C6_Witness ==
    /\ Did("restoreEval")
    /\ ~props[ev.inst].test
    /\ ev.asked = <<"Restore the draft?">>
    /\ ev.answer = "no"
    /\ ev.called = <<>>

----------------------------------------------------------------------------
(* C7 *)

\* C7: a render with open false, or with a mode that names no backend, is
\* inert: it reads no stored data, writes nothing, schedules no evaluation,
\* invokes neither the callback nor the oracle and leaves the registry as
\* it was.
C7_DisabledRenderIsInert ==
    [][ev'.kind = "inert" =>
        /\ ev'.wrote = <<>> /\ ev'.asked = <<>> /\ ev'.called = <<>>
        /\ ev'.sched = {} /\ ev'.warned = 0
        /\ UNCHANGED <<mounted, props, hookKey, storedData, requiredData,
                       storeTimer, restoreTimer, storage, keySet>>]_vars

\* a disabled render of an instance that never mounted, the registry empty
C7_Witness ==
    /\ Did("inert")
    /\ ~mounted[ev.inst]
    /\ keySet = {}
    /\ storedData[ev.inst] = Undef
    /\ \E m \in Modes, k \in Keys : storage[m][k] # NoItem

----------------------------------------------------------------------------
(* C8 *)

\* C8: with open true, store.data {name:'x'} and no stored value, the store
\* evaluation stores {name:'x'}; with {name:'x'} stored, a store evaluation
\* for the same data writes nothing, and a render that leaves store.data
\* unchanged schedules no store evaluation and writes nothing.
C8_StoresOnceThenNoRewrite ==
    [][LET i == ev'.inst
       IN  /\ (/\ ev'.kind = "storeEval"
               /\ props[i].data = NameX /\ requiredData[i] = NameX
               /\ props[i].storeWhen = Absent /\ props[i].when = Absent
               => /\ storedData[i] = Undef =>
                        /\ ev'.wrote = <<NameX>>
                        /\ storage'[props[i].mode][hookKey[i]] = NameX
                        /\ mounted[i] => storedData'[i] = NameX
                  /\ storedData[i] = NameX =>
                        /\ ev'.wrote = <<>>
                        /\ storage' = storage)
           /\ (/\ ev'.kind = "render"
               /\ props'[i].data = props[i].data
               /\ props'[i].required = props[i].required
               => /\ "store" \notin ev'.sched
                  /\ storeTimer'[i] = storeTimer[i]
                  /\ storage' = storage)]_vars

\* {name:'x'} has just been stored where nothing was stored before
C8_Witness ==
    /\ Did("storeEval")
    /\ ev.wrote = <<NameX>>
    /\ props[ev.inst].mode = "session"
    /\ storage["session"]["k1"] = NameX
    /\ storage["local"]["k1"] = NoItem
    /\ storedData[ev.inst] = NameX

----------------------------------------------------------------------------
(* C9 *)

\* C9: both gates compare the stored and the projected data by deep
\* structural equality, insensitive to the order of object keys and
\* sensitive to the order of array elements.
C9_GatesCompareStructurally ==
    \A i \in Insts : mounted[i] =>
        (isDifferent(storedData[i], requiredData[i])
            <=> StructurallyDifferent(storedData[i], requiredData[i]))

----------------------------------------------------------------------------
(* C10 *)

Window(p) == IF p.delay = Absent THEN DefaultDelay ELSE p.delay.n
OnTime(since, window) == since >= window /\ since - Quantum < window

\* C10: each debounce timer coalesces a burst.  No evaluation runs in the
\* step that calls the debounced function; an evaluation runs only one
\* window after the last call (at the first step of the clock there), with
\* the values of the latest render; the clock never passes that point with
\* the evaluation outstanding, and one call is outstanding exactly while its
\* timer is pending, so a burst ends in exactly one evaluation.  A call or
\* an evaluation of one timer leaves the other timer as it was.
C10_TrailingDebounceTimersIndependent ==
    [][LET i == ev'.inst
       IN  /\ ev'.kind = "storeEval" =>
                /\ OnTime(sinceStore[i], StoreWait)
                /\ ev'.wrote \in {<<>>, <<requiredData[i]>>}
                /\ restoreTimer' = restoreTimer /\ sinceRestore' = sinceRestore
           /\ ev'.kind = "restoreEval" =>
                /\ OnTime(sinceRestore[i], Window(props[i]))
                /\ ev'.called \in {<<>>, <<Reconcile(props[i].data, storedData[i])>>}
                /\ storeTimer' = storeTimer /\ sinceStore' = sinceStore
           /\ ev'.kind \in {"mount", "render"} =>
                /\ ev'.wrote = <<>> /\ ev'.asked = <<>> /\ ev'.called = <<>>
                /\ storage' = storage
                /\ "store" \in ev'.sched => storeTimer'[i] = StoreWait
                /\ "restore" \in ev'.sched => restoreTimer'[i] = Window(props'[i])
                /\ "store" \notin ev'.sched /\ ev'.kind = "render" =>
                        storeTimer'[i] = storeTimer[i]
                /\ "restore" \notin ev'.sched => restoreTimer'[i] = restoreTimer[i]
           /\ ev'.kind = "advance" =>
                \A j \in Insts :
                    /\ sinceStore[j] # Off => sinceStore[j] < StoreWait
                    /\ sinceRestore[j] # Off => sinceRestore[j] < Window(props[j])
           /\ \A j \in Insts :
                /\ sinceStore'[j] # Off <=> storeTimer'[j] # Off
                /\ sinceRestore'[j] # Off <=> restoreTimer'[j] # Off]_vars

\* a store call has restarted the running store timer while the restore
\* timer, started earlier, runs on
C10_Witness ==
    /\ Did("render")
    /\ ev.restarted = {"store"}
    /\ ev.sched = {"store"}
    /\ storeTimer[ev.inst] = StoreWait
    /\ restoreTimer[ev.inst] \notin {Off, 0, Window(props[ev.inst])}

----------------------------------------------------------------------------
(* C11 *)

\* C11: no failure reaches the host: an exception raised during the setup or
\* an evaluation of an instance (the storage read, the write of the store
\* evaluation, the restore callback, the serialization of the data) is
\* caught at the instance boundary and logged; none is left uncaught.
C11_NoFailureReachesHost == ev.threw # "uncaught"

----------------------------------------------------------------------------
(* C12 *)

\* the other mounted instances that store under the key of instance i
OthersUsingKeyOf(i) == {j \in Insts \ {i} : mounted[j] /\ hookKey[j] = hookKey[i]}

\* C12: the duplicate-key warning is logged exactly when an instance is set
\* up with a key that another mounted instance is using, once for the pair;
\* an instance whose key no other mounted instance uses logs no warning,
\* whatever renders, key-prop changes, unmounts and remounts came before.
C12_WarnsExactlyOnConcurrentDuplicate ==
    ev.warned = 1 <=> (Did("mount") /\ OthersUsingKeyOf(ev.inst) # {})

----------------------------------------------------------------------------
(* C13 *)

\* C13: isValid follows the asymmetric rules: an object is valid iff every
\* property value is valid in turn ({} is valid); an array is valid iff it
\* is not empty and every element is truthy, elements not being checked in
\* turn ([] and [0] are invalid, [[]] and [{a:0}] are valid); a Map or a
\* Set is valid iff its size is not zero, whatever it holds; anything else
\* is valid iff it is truthy.  Only valid data is written.
C13_isValidAsymmetricRules ==
    /\ \A i \in Insts : mounted[i] =>
        LET v == requiredData[i]
        IN  /\ v.t = "object" =>
                (isValid(v) <=> \A n \in 1..Len(v.kv) : isValid(v.kv[n][2]))
            /\ v.t = "array" =>
                (isValid(v) <=> Len(v.el) > 0 /\ \A n \in 1..Len(v.el) : Truthy(v.el[n]))
            /\ v.t \in {"map", "set"} => (isValid(v) <=> v.size > 0)
            /\ v.t \notin {"object", "array", "map", "set"} => (isValid(v) <=> Truthy(v))
            /\ v = EmptyObj => isValid(v)
            /\ v \in {EmptyList, Arr(<<Num(0)>>), A0, MapOf(0), SetOf(0)} => ~isValid(v)
            /\ v \in {Arr(<<EmptyList>>), Arr(<<A0>>), MapWith(<<Num(0)>>),
                      SetWith(<<Null>>)} => isValid(v)
    /\ ev.wrote # <<>> => isValid(ev.wrote[1])

\* [{a:0}], an array that holds an invalid object, has been written
C13_Witness ==
    /\ Did("storeEval")
    /\ ev.wrote = <<Arr(<<A0>>)>>
    /\ ~isValid(A0)
    /\ storedData[ev.inst] = Arr(<<A0>>)

----------------------------------------------------------------------------
(* C14 *)

\* the names a required list holds
Listed(required) == {required.el[n].s : n \in 1..Len(required.el)}

\* C14: when store.data is an object and store.required is a non-empty list,
\* the projected data is a new object whose keys are exactly the listed
\* names, each with the value store.data has for it (undefined when it has
\* none); in every other case, an empty list and an absent list included,
\* the projected data is store.data unchanged.
C14_ProjectionOnlyByNonEmptyList ==
    \A i \in Insts : mounted[i] =>
        LET data == props[i].data
            required == props[i].required
            projected == requiredData[i]
        IN  IF data.t = "object" /\ required.t = "array" /\ required.el # <<>>
            THEN /\ projected.t = "object"
                 /\ Len(projected.kv) = Cardinality(Listed(required))
                 /\ TopLevel(projected) = {<<k, Get(data, k)>> : k \in Listed(required)}
            ELSE projected = data

----------------------------------------------------------------------------
(* C15 *)

\* C15: the registry of keys only grows: no step of any instance (mount,
\* render, key change, evaluation, unmount) removes a key from it; and once
\* an enabled instance has been set up, the key it was set up with, which is
\* the key it stores under, is in the registry.
C15_RegistryAppendOnly ==
    [][/\ keySet \subseteq keySet'
       /\ ev'.kind = "mount" => props'[ev'.inst].key \in keySet'
       /\ \A i \in Insts : mounted'[i] => hookKey'[i] \in keySet']_vars

\* both instances have unmounted and the keys of both are still registered
C15_Witness ==
    /\ Did("unmount")
    /\ \A i \in Insts : ~mounted[i]
    /\ hookKey["A"] # hookKey["B"]
    /\ keySet = {hookKey["A"], hookKey["B"]}

----------------------------------------------------------------------------
(* C16 *)

\* C16: restoreStateDeb is called at the mount and at every render that
\* changes triggerRestore, and nowhere else: a render that leaves
\* triggerRestore as it was, an evaluation, the passing of time or an
\* unmount never starts the restore timer.  So for an instance that mounts
\* and whose props stay those of the mount, the one restore evaluation runs
\* one restore delay after the mount (the clock does not pass that point
\* with it outstanding), and it consults the oracle, or with `test` calls
\* the callback, exactly once iff the mount found truthy stored data that
\* differs from the projected data and triggerRestore is true.
C16_RestoreScheduledAtMountAndTriggerChange ==
    [][LET i == ev'.inst
           called == restoreTimer'[i] = Window(props'[i]) /\ sinceRestore'[i] = 0
           untouched == restoreTimer'[i] = restoreTimer[i]
                            /\ sinceRestore'[i] = sinceRestore[i]
       IN  /\ ev'.kind = "mount" => called
           /\ ev'.kind = "render" =>
                IF triggerRestore(props'[i]) # triggerRestore(props[i])
                THEN called ELSE untouched
           /\ ev'.kind \notin {"mount", "render"} =>
                \A j \in Insts : restoreTimer'[j] <= restoreTimer[j]
           /\ ev'.kind = "advance" =>
                \A j \in Insts : restoreTimer[j] # Off =>
                    sinceRestore[j] < Window(props[j])
           /\ ev'.kind = "restoreEval" /\ hist[i].quiet =>
                /\ OnTime(sinceRestore[i], Window(props[i]))
                /\ restoreTimer'[i] = Off
                /\ (ev'.asked # <<>> \/ ev'.called # <<>>)
                        <=> (hist[i].draft /\ triggerRestore(props[i]))
                /\ Len(ev'.asked) <= 1 /\ Len(ev'.called) <= 1
                /\ (props[i].test => ev'.asked = <<>>)
                /\ (~props[i].test => (ev'.called # <<>> => ev'.asked # <<>>))
                /\ ~hist'[i].draft]_vars

\* the oracle is consulted at the evaluation that the mount scheduled, the
\* props being those of the mount
C16_Witness ==
    /\ Did("restoreEval")
    /\ mounted[ev.inst]
    /\ hist[ev.inst].quiet
    /\ ~props[ev.inst].test
    /\ Len(ev.asked) = 1
    /\ restoreTimer[ev.inst] = Off

----------------------------------------------------------------------------
(* C17 *)

\* C17: storeStateDeb is called only by a render after the first that
\* changes the serialized projected data: the mount starts no store timer,
\* a render that leaves the projected data as it was (whatever it does to
\* store.when or the top-level when, and even if canStore becomes true)
\* leaves the store timer and the storage as they were, and nothing else
\* starts the timer.  So data is written only at a store evaluation of an
\* instance whose projected data has changed since it mounted.
C17_StoreScheduledOnlyByProjectedChange ==
    [][LET i == ev'.inst
           called == storeTimer'[i] = StoreWait /\ sinceStore'[i] = 0
           untouched == storeTimer'[i] = storeTimer[i] /\ sinceStore'[i] = sinceStore[i]
       IN  /\ ev'.kind = "mount" => storeTimer'[i] = Off /\ sinceStore'[i] = Off
           /\ ev'.kind = "render" =>
                /\ storage' = storage
                /\ IF Stringify(requiredData'[i]) # Stringify(requiredData[i])
                   THEN called ELSE untouched
           /\ ev'.kind \notin {"mount", "render"} =>
                \A j \in Insts : storeTimer'[j] <= storeTimer[j]
           /\ ev'.wrote # <<>> =>
                /\ ev'.kind = "storeEval"
                /\ hist[i].edited]_vars

\* a render has made canStore true by its `when` alone: no store evaluation
\* is scheduled for the data the instance mounted with
C17_Witness ==
    /\ Did("render")
    /\ mounted[ev.inst]
    /\ props[ev.inst].storeWhen = Bool(TRUE)
    /\ canStore(props[ev.inst], storedData[ev.inst], requiredData[ev.inst])
    /\ ~hist[ev.inst].edited
    /\ ~hist[ev.inst].quiet
    /\ storeTimer[ev.inst] = Off

----------------------------------------------------------------------------
(* C18 *)

\* C18: a draft that the mount found in storage (truthy, and different from
\* the projected data) is not overwritten by a write of the instance before
\* a restore evaluation of that mount has run, whatever the restore delay
\* and however data changes and trigger changes interleave.
C18_DraftKeptUntilRestoreEvaluated ==
    [][LET i == ev'.inst
       IN  ev'.wrote # <<>> /\ mounted[i] => ~hist[i].draft]_vars

----------------------------------------------------------------------------
(* C19 *)

\* C19: a restore evaluation that passes both gates never restores a value
\* that this mounted instance wrote itself before the projected data last
\* changed: stored data of the instance's own writing that differs from the
\* projected data is older than the live data, and is not offered over it.
C19_NoRestoreOfOwnOlderWrite ==
    [][LET i == ev'.inst
           restored == ev'.kind = "restoreEval"
                            /\ (ev'.asked # <<>> \/ ev'.called # <<>>)
       IN  restored /\ mounted[i] => ~hist[i].own]_vars

----------------------------------------------------------------------------
(* C20 *)

\* C20: when store.required is a list, a store evaluation writes nothing
\* while a listed field of store.data is missing or invalid under isValid,
\* and every value written has all the listed fields valid.
C20_WritesOnlyWithRequiredFieldsValid ==
    [][LET i == ev'.inst
       IN  ev'.wrote # <<>> /\ props[i].required.t = "array" =>
                \A k \in Listed(props[i].required) :
                    /\ isValid(Get(props[i].data, k))
                    /\ isValid(Get(ev'.wrote[1], k))]_vars

====
